---- MODULE Spec2Model ----
(***************************************************************************)
(* The /predict pipeline of src/backend/app.py: customer lookup in the     *)
(* history dataset, enrichment, the rule engine, categorical encoding, the *)
(* classifier, the SHAP ranking, the audit log and the e-mail alert.       *)
(*                                                                         *)
(* One worker handles the requests one after the other; the audit log and  *)
(* the list of dispatched alerts are the only state that outlives a        *)
(* request.  The artifacts (dataset, model) are loaded once, in Init.      *)
(*                                                                         *)
(* Strings that the code takes apart (the customer id, which is stripped)  *)
(* are sequences of one-character strings; the other strings are atoms.    *)
(* A timestamp is a number of hours since Monday 2024-01-01 00:00, within  *)
(* January 2024.  NaT and NaN are the number NaN, which no comparison of   *)
(* the code is true of.                                                    *)
(***************************************************************************)
EXTENDS Integers, Sequences, FiniteSets, TLC

VARIABLES
    dataset,            \* app.py:18-25  the history rows, in table order
    tie,                \* which of the rows that tie in a sort comes first
    model,              \* app.py:12     the classifier artifact
    pc,                 \* where the handler of the current request stands
    nreq,               \* number of requests received so far (the clock of log lines)
    txn,                \* app.py:57     data = txn.dict()
    cust_id,            \* app.py:58
    latest,             \* app.py:64
    input_data,         \* app.py:66-81, encoded in place by 91-96
    rule_based_result,  \* app.py:84-88
    prediction_code,    \* app.py:99
    ml_prediction,      \* app.py:100
    top_features,       \* app.py:107
    predict_calls,      \* calls of model.predict made by the current request
    shap,               \* how the explainer call of the current request ended
    smtp,               \* state of the SMTP conversation of send_email_alert
    log,                \* predictions.log, one record per line
    alerts,             \* the alert messages handed to the SMTP channel
    response,           \* what the current request returned, or Pending
    completed,          \* number of requests that returned a complete result
    seen,               \* the requests that returned a result, with their verdicts
    fraud_label,        \* train_model.py:45  the label of the row being labelled
    upload_pc,          \* where the handler of /upload_json stands
    content,            \* llm_app.py:63    the bytes of the uploaded file
    transactions,       \* llm_app.py:64
    llm_calls,          \* llm_app.py:43    calls of client.chat.completions.create
    upload_response     \* what /upload_json returned, or Pending

vars == <<dataset, model, pc, nreq, txn, cust_id, latest, input_data,
          rule_based_result, prediction_code, ml_prediction, top_features,
          predict_calls, shap, smtp, log, alerts, response, completed,
          tie, seen, fraud_label,
          upload_pc, content, transactions, llm_calls, upload_response>>

uploads == <<upload_pc, content, transactions, llm_calls, upload_response>>

\* what the handler of /predict never writes
aside == <<tie, fraud_label, uploads>>

locals == <<latest, input_data, rule_based_result, prediction_code,
            ml_prediction, top_features>>

-----------------------------------------------------------------------------
(* Bounds of the model *)

MaxRequests == 2
MaxRepeat == 3
MaxContentLen == 3

-----------------------------------------------------------------------------
(* Values *)

NaN == -1
Unset == "unset"
Pending == [status |-> 0]

IsNull(x) == x = NaN
Gt(a, b) == ~IsNull(a) /\ ~IsNull(b) /\ a > b
Eq(a, b) == ~IsNull(a) /\ ~IsNull(b) /\ a = b

Whitespace == {" "}

RECURSIVE LStrip(_)
LStrip(s) == IF s # <<>> /\ Head(s) \in Whitespace THEN LStrip(Tail(s)) ELSE s

RECURSIVE RStrip(_)
RStrip(s) ==
    IF s # <<>> /\ s[Len(s)] \in Whitespace
    THEN RStrip(SubSeq(s, 1, Len(s) - 1))
    ELSE s

Strip(s) == RStrip(LStrip(s))

Lower(s) ==
    CASE s = "RTP"  -> "rtp"
      [] s = "Rtp"  -> "rtp"
      [] s = "Wire" -> "wire"
      [] OTHER      -> s

-----------------------------------------------------------------------------
(* Artifacts written by train_model.py and loaded by app.py *)

fraud_type_map == (0 :> "None") @@ (1 :> "APP Fraud") @@ (2 :> "ATO + RTP Drain")

categorical_cols == <<"transaction_type", "location", "device_type", "payment_method">>

\* LabelEncoder.classes_ of each categorical column: the sorted distinct values
encoders ==
    [transaction_type |-> <<"rtp", "wire">>,
     location         |-> <<"LA", "NY">>,
     device_type      |-> <<"mobile", "web">>,
     payment_method   |-> <<"ACH", "card">>]

features ==
    <<"transaction_type", "transaction_amount", "location", "device_type",
      "payment_method", "failed_login_attempts", "new_beneficiary_added",
      "unusual_location", "time_gap_between_transactions",
      "transaction_frequency_per_day", "hour", "day", "weekday", "is_rtp">>

Classes(encoder) == {encoder[i] : i \in 1..Len(encoder)}

\* encoder.transform([v])[0]: the position of v in classes_, from 0
Transform(encoder, v) == (CHOOSE i \in 1..Len(encoder) : encoder[i] = v) - 1

-----------------------------------------------------------------------------
(* The history dataset: load_data_from_snowflake and app.py:18-25 *)

NaT == NaN

Row(c, t, loc, pay, failed, newben, unusual) ==
    [customer_id |-> c, transaction_datetime |-> t, location |-> loc,
     payment_method |-> pay, failed_login_attempts |-> failed,
     new_beneficiary_added |-> newben, unusual_location |-> unusual,
     time_gap_between_transactions |-> 30, transaction_frequency_per_day |-> 4]

\* Tables the warehouse query may return (rows in table order)
Tables ==
    { << Row(<<"A">>, 10, "LA", "card", 0, 0, 0),
         Row(<<"A">>, 34, "NY", "ACH", 3, 1, 1) >>,
      << Row(<<"A">>, 58, "NY", "ACH", 2, 1, 1),
         Row(<<"A">>, 34, "LA", "ACH", 3, 0, 1),
         Row(<<"B">>, 10, "NY", "cheque", 3, 0, 1) >>,
      << Row(<<"A">>, 34, "Mars", "ACH", 3, 0, 1),
         Row(<<"B">>, NaT, "LA", "card", 0, 0, 0) >>,
      << Row(<<"A">>, 10, "NY", "card", 4, 0, 1),
         Row(<<"B">>, NaT, "NY", "ACH", 3, 1, 1),
         Row(<<"B">>, 5, "LA", "ACH", 0, 1, 0) >>,
      << Row(<<"A", " ">>, 10, "NY", "ACH", 3, 1, 1),
         Row(<<"B">>, 10, "Mars", "cheque", 3, 1, 1),
         Row(<<"B">>, 10, "LA", "card", 0, 0, 0) >> }

\* app.py:22-25: hour, day and weekday of the (coerced) timestamp
DatetimeFeatures(r) ==
    LET t == r.transaction_datetime
    IN  IF IsNull(t)
        THEN [hour |-> NaN, day |-> NaN, weekday |-> NaN]
        ELSE [hour |-> t % 24, day |-> (t \div 24) + 1, weekday |-> (t \div 24) % 7]

LoadDataset(table) ==
    [i \in 1..Len(table) |-> table[i] @@ DatetimeFeatures(table[i])]

-----------------------------------------------------------------------------
(* The classifier artifact: an opaque deterministic function of the encoded *)
(* feature vector.  The family: decision tables over (is_rtp, amount >     *)
(* 5000) and an artifact that cannot predict (not fitted, wrong shape).    *)

ModelCodes == 0..3

Classifiers ==
    {[fitted |-> TRUE, bias |-> b] : b \in ModelCodes}
    \cup {[fitted |-> FALSE, bias |-> 0]}

\* a classifier that remembers: its answer drifts with the requests scored
ModelPredictWithMemory(m, x) ==
    (m.bias + x.is_rtp + (IF Gt(x.transaction_amount, 5000) THEN 2 ELSE 0)
     + Len(log)) % 4

\* model.predict(input_df)[0]
ModelPredict(m, x) ==
    (m.bias + x.is_rtp + (IF Gt(x.transaction_amount, 5000) THEN 2 ELSE 0)) % 4

\* shap_values.values[0][i, c]: the contribution of feature i to class c
ShapValue(m, x, i, c) == ((i * (c + 2) + m.bias + x.is_rtp) % 17) - 8

-----------------------------------------------------------------------------
(* Exceptions *)

HTTPException(status, detail) ==
    [type |-> "HTTPException", status_code |-> status, detail |-> detail]

Exception(msg) == [type |-> "Exception", status_code |-> 0, detail |-> <<msg>>]

\* the wrapper without its first except clause: everything becomes a 500
ExceptionWrapperCatchAll(e) == HTTPException(500, e.detail)

\* app.py:120-123: what leaves the handler when e is raised inside the try
ExceptionWrapper(e) ==
    IF e.type = "HTTPException" THEN e ELSE HTTPException(500, e.detail)

\* FastAPI's answer to an HTTPException leaving the handler
ErrorResponse(e) == [status |-> e.status_code, detail |-> e.detail]

-----------------------------------------------------------------------------
(* Customer lookup and enrichment, app.py:57-81 *)

\* the filter of line 59 lost: every row is taken for the customer's
CustDataUnfiltered(ds, id) == ds

CustData(ds, id) == SelectSeq(ds, LAMBDA r : r.customer_id = id)

\* the sort of line 64 ascending: the oldest row comes first
LatestRowsAscending(cust_data) ==
    LET rows  == {cust_data[i] : i \in 1..Len(cust_data)}
        timed == {r \in rows : ~IsNull(r.transaction_datetime)}
    IN  IF timed = {}
        THEN rows
        ELSE {r \in timed :
                \A q \in timed : r.transaction_datetime <= q.transaction_datetime}

\* sort_values(by="transaction_datetime", ascending=False).iloc[0]: NaT sorts
\* last, and rows that tie for the first place come in no defined order
LatestRows(cust_data) ==
    LET rows  == {cust_data[i] : i \in 1..Len(cust_data)}
        timed == {r \in rows : ~IsNull(r.transaction_datetime)}
    IN  IF timed = {}
        THEN rows
        ELSE {r \in timed :
                \A q \in timed : r.transaction_datetime >= q.transaction_datetime}

\* the row the sort of line 64 puts first: the sort is a fixed function of
\* the table, so the same rows always come in the same order
Latest(cust_data, order) ==
    LET first == {i \in 1..Len(cust_data) : cust_data[i] \in LatestRows(cust_data)}
        pick  == IF order = "first"
                 THEN CHOOSE i \in first : \A j \in first : i <= j
                 ELSE CHOOSE i \in first : \A j \in first : i >= j
    IN  cust_data[pick]

\* the orders the sort can give a table: without rows that tie for the
\* first place of a customer there is one
TieOrders(ds) ==
    IF \E i \in 1..Len(ds) :
          Cardinality(LatestRows(CustData(ds, ds[i].customer_id))) > 1
    THEN {"first", "last"}
    ELSE {"first"}

InputData(data, row) ==
    [transaction_type |-> data.Transaction_Type,
     transaction_amount |-> data.Transaction_Amount,
     location |-> row.location,
     device_type |-> data.Device_Type,
     payment_method |-> row.payment_method,
     failed_login_attempts |-> row.failed_login_attempts,
     new_beneficiary_added |-> row.new_beneficiary_added,
     unusual_location |-> row.unusual_location,
     time_gap_between_transactions |-> row.time_gap_between_transactions,
     transaction_frequency_per_day |-> row.transaction_frequency_per_day,
     hour |-> row.hour,
     day |-> row.day,
     weekday |-> row.weekday,
     is_rtp |-> IF Lower(data.Transaction_Type) = "rtp" THEN 1 ELSE 0]

-----------------------------------------------------------------------------
(* Rule engine, app.py:83-88 *)

\* the two rules in the other order
RuleBasedResultAtoFirst(x) ==
    IF Gt(x.failed_login_attempts, 2) /\ Eq(x.unusual_location, 1)
    THEN "ATO + RTP Drain"
    ELSE IF Eq(x.new_beneficiary_added, 1) /\ Gt(x.transaction_amount, 5000)
         THEN "APP Fraud"
         ELSE "None"

\* train_model.py:37-43, the label of one training row
assign_label(row) ==
    IF Gt(row.failed_login_attempts, 2) /\ Eq(row.unusual_location, 1)
    THEN 2
    ELSE IF Eq(row.new_beneficiary_added, 1) /\ Gt(row.transaction_amount, 5000)
         THEN 1
         ELSE 0

RuleBasedResult(x) ==
    IF Eq(x.new_beneficiary_added, 1) /\ Gt(x.transaction_amount, 5000)
    THEN "APP Fraud"
    ELSE IF Gt(x.failed_login_attempts, 2) /\ Eq(x.unusual_location, 1)
         THEN "ATO + RTP Drain"
         ELSE "None"

-----------------------------------------------------------------------------
(* Categorical encoding, app.py:90-96 *)

\* the test of line 93 for one field
Known(field, value) ==
    /\ field \in DOMAIN encoders
    /\ value \in Classes(encoders[field])

\* the loop from its k-th field on: the encoded vector, or the vector as
\* far as it got and the exception of line 96
RECURSIVE EncodeFrom(_, _)
EncodeFrom(x, k) ==
    IF k > Len(categorical_cols)
    THEN [ok |-> TRUE, value |-> x]
    ELSE LET field == categorical_cols[k]
         IN  IF Known(field, x[field])
             THEN EncodeFrom([x EXCEPT ![field] = Transform(encoders[field], x[field])],
                             k + 1)
             ELSE [ok |-> FALSE, value |-> x,
                   exc |-> HTTPException(400, <<"Unknown value for", field, x[field]>>)]

\* the loop of line 91 starting at the second field
EncodeSkippingFirst(x) == EncodeFrom(x, 2)

Encode(x) == EncodeFrom(x, 1)

-----------------------------------------------------------------------------
(* Classifier verdict and SHAP ranking, app.py:98-107 *)

\* fraud_type_map.get(prediction_code, "Unknown")
MlPrediction(code) ==
    IF code \in DOMAIN fraud_type_map THEN fraud_type_map[code] ELSE "Unknown"

Abs(v) == IF v < 0 THEN -v ELSE v

\* line 105 without .abs(): the signed contributions
FeatureContributionsSigned(m, x, code) ==
    [i \in 1..Len(features) |-> ShapValue(m, x, i, code)]

\* Series(shap_contrib, index=input_df.columns).abs()
FeatureContributions(m, x, code) ==
    [i \in 1..Len(features) |-> Abs(ShapValue(m, x, i, code))]

\* sort_values(ascending=False): positions by falling value; equal values are
\* kept in column order
RECURSIVE SortDescending(_, _)
SortDescending(contrib, left) ==
    IF left = {}
    THEN <<>>
    ELSE LET best == CHOOSE i \in left :
                        \A j \in left :
                            \/ contrib[i] > contrib[j]
                            \/ contrib[i] = contrib[j] /\ i <= j
         IN  <<best>> \o SortDescending(contrib, left \ {best})

Head3(s) == SubSeq(s, 1, IF Len(s) < 3 THEN Len(s) ELSE 3)

\* feature_contributions.head(3).to_dict(), as (name, magnitude) pairs in order
TopFeatures(m, x, code) ==
    LET contrib == FeatureContributions(m, x, code)
        order   == Head3(SortDescending(contrib, DOMAIN contrib))
    IN  [k \in 1..Len(order) |-> <<features[order[k]], contrib[order[k]]>>]

-----------------------------------------------------------------------------
(* Logging and alerting, app.py:35-52 and 109-112 *)

FraudLabels == {"APP Fraud", "ATO + RTP Drain"}

\* the line log_prediction writes; its timestamp is the request's number
LogLine(time, customer, rule, ml) ==
    [time |-> time, customer |-> customer, rule |-> rule, ml |-> ml]

\* line 111 looking at the rule verdict alone
AlertTriggeredByRuleOnly(rule, ml) == rule \in FraudLabels

\* the log lines and the alerts of the n-th request
LinesOf(n) == {i \in 1..Len(log) : log[i].time = n}
AlertsOf(n) == {i \in 1..Len(alerts) : alerts[i].time = n}

\* the condition of line 111
AlertTriggered(rule, ml) == rule \in FraudLabels \/ ml \in FraudLabels

\* line 112 preferring the model verdict
AlertFraudTypeModelFirst(rule, ml) == IF ml \in FraudLabels THEN ml ELSE rule

\* the second argument of send_email_alert, line 112
AlertFraudType(rule, ml) == IF rule # "None" THEN rule ELSE ml

\* the message send_email_alert builds, lines 40-43
AlertMessage(time, customer, fraud_type) ==
    [time |-> time, customer_id |-> customer, fraud_type |-> fraud_type,
     subject |-> <<"Fraud Alert - ", fraud_type>>]

\* send_email_alert without its try/except: the SMTP exception escapes
SendEmailAlertPropagates(outcome) ==
    IF outcome = "failed" THEN "raised" ELSE "returned"

\* lines 45-52: what send_email_alert does with the outcome of the SMTP
\* conversation: it returns, also when the conversation raised
SendEmailAlertResult(outcome) ==
    CASE outcome = "sent"   -> "returned"
      [] outcome = "failed" -> "returned"

\* the dictionary of lines 114-118
Result(rule, ml, top) ==
    [status |-> 200, rule_based_result |-> rule,
     ml_prediction |-> <<ml, " (ML-Based)">>, top_features |-> top]

-----------------------------------------------------------------------------
(* Requests *)

CustomerIds == {<<"A">>, <<" ", "A", " ">>, <<"a">>, <<"B">>}
TransactionTypes == {"rtp", "wire", "Wire"}
Amounts == {5000, 5001}
DeviceTypes == {"web", "fax"}

Transactions ==
    [Customer_ID : CustomerIds, Transaction_Type : TransactionTypes,
     Transaction_Amount : Amounts, Device_Type : DeviceTypes]

-----------------------------------------------------------------------------
(* The handler *)

\* no file has been uploaded
UploadIdle ==
    /\ upload_pc = "idle"
    /\ content = <<>>
    /\ transactions = Unset
    /\ llm_calls = 0
    /\ upload_response = Pending

Init ==
    /\ dataset \in {LoadDataset(t) : t \in Tables}
    /\ model \in Classifiers
    /\ pc = "idle"
    /\ nreq = 0
    /\ txn = Unset
    /\ cust_id = Unset
    /\ latest = Unset
    /\ input_data = Unset
    /\ rule_based_result = Unset
    /\ prediction_code = Unset
    /\ ml_prediction = Unset
    /\ top_features = Unset
    /\ predict_calls = 0
    /\ shap = "idle"
    /\ smtp = "idle"
    /\ log = <<>>
    /\ alerts = <<>>
    /\ response = Pending
    /\ completed = 0
    /\ tie \in TieOrders(dataset)
    /\ seen = {}
    /\ fraud_label = <<>>
    /\ UploadIdle

\* an exception raised inside the try of predict: lines 120-123 and FastAPI
Raise(e) ==
    /\ response' = ErrorResponse(ExceptionWrapper(e))
    /\ pc' = "done"

\* lines 57-96: lookup, enrichment, rules, encoding; the worker takes the
\* request if fewer than limit came before
PredictUpTo(t, limit) ==
    /\ pc \in {"idle", "done"}
    /\ nreq < limit
    /\ nreq' = nreq + 1
    /\ txn' = t
    /\ cust_id' = Strip(t.Customer_ID)
    /\ predict_calls' = 0
    /\ shap' = "idle"
    /\ smtp' = "idle"
    /\ prediction_code' = Unset
    /\ ml_prediction' = Unset
    /\ top_features' = Unset
    /\ UNCHANGED <<dataset, model, log, alerts, completed, seen, aside>>
    /\ LET cust_data == CustData(dataset, Strip(t.Customer_ID))
       IN  IF cust_data = <<>>
           THEN /\ Raise(HTTPException(404, <<"Customer ID not found">>))
                /\ latest' = Unset
                /\ input_data' = Unset
                /\ rule_based_result' = Unset
           ELSE LET row == Latest(cust_data, tie)
                    x   == InputData(t, row)
                    enc == Encode(x)
                IN  /\ latest' = row
                    /\ rule_based_result' = RuleBasedResult(x)
                    /\ input_data' = enc.value
                    /\ IF enc.ok
                       THEN /\ pc' = "classify"
                            /\ response' = Pending
                       ELSE Raise(enc.exc)

Predict(t) == PredictUpTo(t, MaxRequests)

\* lines 98-100
Classify ==
    /\ UNCHANGED <<seen, aside>>
    /\ pc = "classify"
    /\ predict_calls' = predict_calls + 1
    /\ IF model.fitted
       THEN /\ prediction_code' = ModelPredict(model, input_data)
            /\ ml_prediction' = MlPrediction(ModelPredict(model, input_data))
            /\ pc' = "explain"
            /\ UNCHANGED response
       ELSE /\ Raise(Exception("predict failed"))
            /\ UNCHANGED <<prediction_code, ml_prediction>>
    /\ UNCHANGED <<dataset, model, nreq, txn, cust_id, latest, input_data,
                   rule_based_result, top_features, shap, smtp, log, alerts,
                   completed>>

\* lines 102-107: the explainer answers, or raises
Explain(ok) ==
    /\ UNCHANGED <<seen, aside>>
    /\ pc = "explain"
    /\ IF ok
       THEN /\ top_features' = TopFeatures(model, input_data, prediction_code)
            /\ shap' = "ok"
            /\ pc' = "log"
            /\ UNCHANGED response
       ELSE /\ Raise(Exception("explainer failed"))
            /\ shap' = "raised"
            /\ UNCHANGED top_features
    /\ UNCHANGED <<dataset, model, nreq, txn, cust_id, latest, input_data,
                   rule_based_result, prediction_code, ml_prediction,
                   predict_calls, smtp, log, alerts, completed>>

\* line 110 and log_prediction: the line is appended, or open/write raises
LogPrediction(ok) ==
    /\ UNCHANGED <<seen, aside>>
    /\ pc = "log"
    /\ IF ok
       THEN /\ log' = Append(log, LogLine(nreq, cust_id, rule_based_result, ml_prediction))
            /\ pc' = "alert"
            /\ UNCHANGED response
       ELSE /\ Raise(Exception("cannot write predictions.log"))
            /\ UNCHANGED log
    /\ UNCHANGED <<dataset, model, nreq, txn, cust_id, locals, predict_calls,
                   shap, smtp, alerts, completed>>

\* lines 111-112 and 39-46: the alert is built and handed to the SMTP server
SendEmailAlert ==
    /\ UNCHANGED <<seen, aside>>
    /\ pc = "alert"
    /\ AlertTriggered(rule_based_result, ml_prediction)
    /\ alerts' = Append(alerts,
                        AlertMessage(nreq, cust_id,
                                     AlertFraudType(rule_based_result, ml_prediction)))
    /\ smtp' = "waiting"
    /\ pc' = "smtp"
    /\ UNCHANGED <<dataset, model, nreq, txn, cust_id, locals, predict_calls,
                   shap, log, response, completed>>

\* line 111, condition false
NoAlert ==
    /\ UNCHANGED <<seen, aside>>
    /\ pc = "alert"
    /\ ~AlertTriggered(rule_based_result, ml_prediction)
    /\ pc' = "return"
    /\ UNCHANGED <<dataset, model, nreq, txn, cust_id, locals, predict_calls,
                   shap, smtp, log, alerts, response, completed>>

\* lines 46-52: the SMTP conversation ends, well or with an exception; a
\* server that never answers leaves the handler here
SmtpAnswer(outcome) ==
    /\ UNCHANGED <<seen, aside>>
    /\ pc = "smtp"
    /\ smtp' = outcome
    /\ IF SendEmailAlertResult(outcome) = "returned"
       THEN /\ pc' = "return"
            /\ UNCHANGED response
       ELSE Raise(Exception("smtp failed"))
    /\ UNCHANGED <<dataset, model, nreq, txn, cust_id, locals, predict_calls,
                   shap, log, alerts, completed>>

\* lines 114-118
Return ==
    /\ seen' = seen \cup {[txn |-> txn, rule |-> rule_based_result,
                            ml |-> ml_prediction,
                            alert |-> AlertsOf(nreq) # {}]}
    /\ UNCHANGED aside
    /\ pc = "return"
    /\ response' = Result(rule_based_result, ml_prediction, top_features)
    /\ pc' = "done"
    /\ completed' = completed + 1
    /\ UNCHANGED <<dataset, model, nreq, txn, cust_id, locals, predict_calls,
                   shap, smtp, log, alerts>>

Next ==
    \/ \E t \in Transactions : Predict(t)
    \/ Classify
    \/ \E ok \in BOOLEAN : Explain(ok)
    \/ \E ok \in BOOLEAN : LogPrediction(ok)
    \/ SendEmailAlert
    \/ NoAlert
    \/ \E outcome \in {"sent", "failed"} : SmtpAnswer(outcome)
    \/ Return

Spec == Init /\ [][Next]_vars

-----------------------------------------------------------------------------
(* Longer runs of requests that can all be scored, to compare the verdicts  *)
(* of a request that comes back                                            *)

RepeatTransactions ==
    [Customer_ID : {<<"A">>, <<"B">>},
     Transaction_Type : {"rtp", "wire"}, Transaction_Amount : Amounts,
     Device_Type : {"web"}]

PredictAgain(t) == PredictUpTo(t, MaxRepeat)

NextRepeat ==
    \/ \E t \in RepeatTransactions : PredictAgain(t)
    \/ Classify
    \/ \E ok \in BOOLEAN : Explain(ok)
    \/ \E ok \in BOOLEAN : LogPrediction(ok)
    \/ SendEmailAlert
    \/ NoAlert
    \/ \E outcome \in {"sent", "failed"} : SmtpAnswer(outcome)
    \/ Return

SpecRepeat == Init /\ [][NextRepeat]_vars

-----------------------------------------------------------------------------
(* The rule engine on its own: lines 83-88 applied to any feature vector *)

RuleAmounts == {0, 4999, 5000, 5001, 9000}
RuleCounts == {NaN, 0, 1, 2, 3, 4}
RuleFlags == {NaN, 0, 1}

RuleInputs ==
    [transaction_amount : RuleAmounts, failed_login_attempts : RuleCounts,
     new_beneficiary_added : RuleFlags, unusual_location : RuleFlags]

InitRules ==
    /\ dataset = <<>>
    /\ model \in {m \in Classifiers : ~m.fitted}
    /\ pc = "rules"
    /\ nreq = 0
    /\ txn = Unset
    /\ cust_id = Unset
    /\ latest = Unset
    /\ input_data \in RuleInputs
    /\ rule_based_result = Unset
    /\ prediction_code = Unset
    /\ ml_prediction = Unset
    /\ top_features = Unset
    /\ predict_calls = 0
    /\ shap = "idle"
    /\ smtp = "idle"
    /\ log = <<>>
    /\ alerts = <<>>
    /\ response = Pending
    /\ completed = 0
    /\ tie = "first"
    /\ seen = {}
    /\ fraud_label = <<>>
    /\ UploadIdle

EvalRules ==
    /\ UNCHANGED <<seen, aside>>
    /\ pc = "rules"
    /\ rule_based_result' = RuleBasedResult(input_data)
    /\ pc' = "ruled"
    /\ UNCHANGED <<dataset, model, nreq, txn, cust_id, latest, input_data,
                   prediction_code, ml_prediction, top_features, predict_calls,
                   shap, smtp, log, alerts, response, completed>>

\* train_model.py:45, df.apply(assign_label, axis=1) on the row with the same
\* four values
AssignLabel ==
    /\ fraud_label = <<>>
    /\ fraud_label' = <<assign_label(input_data)>>
    /\ UNCHANGED <<tie, uploads, seen, pc, rule_based_result>>
    /\ UNCHANGED <<dataset, model, nreq, txn, cust_id, latest, input_data,
                   prediction_code, ml_prediction, top_features, predict_calls,
                   shap, smtp, log, alerts, response, completed>>

NextRules == EvalRules \/ AssignLabel

SpecRules == InitRules /\ [][NextRules]_vars

-----------------------------------------------------------------------------
(* The upload endpoint of the LLM demo, llm_app.py:60-74.  The file is a    *)
(* sequence of lexemes: the brackets and the comma of a JSON array, a      *)
(* number, an object, and a byte that is not UTF-8.                        *)

Lexemes == {"[", "]", ",", "7", "{}", "0xFF"}

RECURSIVE ContentsOfLen(_)
ContentsOfLen(n) ==
    IF n = 0
    THEN {<<>>}
    ELSE {Append(c, x) : c \in ContentsOfLen(n - 1), x \in Lexemes}

Contents == UNION {ContentsOfLen(n) : n \in 0..MaxContentLen}

\* content.decode("utf-8"): the text, or no text when a byte is not UTF-8
Decode(bytes) ==
    IF \A i \in 1..Len(bytes) : bytes[i] # "0xFF"
    THEN [ok |-> TRUE, text |-> bytes]
    ELSE [ok |-> FALSE, text |-> <<>>]

JsonInt == [type |-> "int", items |-> <<>>]
JsonDict == [type |-> "dict", items |-> <<>>]
JsonList(items) == [type |-> "list", items |-> items]
NoParse == [ok |-> FALSE, value |-> JsonInt, next |-> 0]
Parsed(v, n) == [ok |-> TRUE, value |-> v, next |-> n]

\* json.loads: the value that starts at lexeme i, and where it ends
RECURSIVE ParseValue(_, _)
RECURSIVE ParseItems(_, _, _)
ParseValue(text, i) ==
    IF i > Len(text)
    THEN NoParse
    ELSE IF text[i] = "7"
    THEN Parsed(JsonInt, i + 1)
    ELSE IF text[i] = "{}"
    THEN Parsed(JsonDict, i + 1)
    ELSE IF text[i] = "["
    THEN IF i + 1 <= Len(text) /\ text[i + 1] = "]"
         THEN Parsed(JsonList(<<>>), i + 2)
         ELSE ParseItems(text, i + 1, <<>>)
    ELSE NoParse

\* the items of an array from lexeme i on, after those of acc
ParseItems(text, i, acc) ==
    LET v == ParseValue(text, i)
    IN  IF ~v.ok \/ v.next > Len(text)
        THEN NoParse
        ELSE IF text[v.next] = "]"
        THEN Parsed(JsonList(Append(acc, v.value)), v.next + 1)
        ELSE IF text[v.next] = ","
        THEN ParseItems(text, v.next + 1, Append(acc, v.value))
        ELSE NoParse

\* json.loads(text): one value and nothing after it
JsonLoads(text) ==
    LET v == ParseValue(text, 1)
    IN  IF v.ok /\ v.next = Len(text) + 1 THEN v ELSE NoParse

\* str(e) of line 74; Starlette prints an HTTPException as "status: detail"
Str(e) ==
    IF e.type = "HTTPException"
    THEN <<ToString(e.status_code)>> \o e.detail
    ELSE e.detail

\* llm_app.py:73-74: every exception raised in the try becomes a 500
UploadExceptionWrapper(e) == HTTPException(500, Str(e))

UploadRaise(e) ==
    /\ upload_response' = ErrorResponse(UploadExceptionWrapper(e))
    /\ upload_pc' = "done"

\* transactions[:10]
First10(items) == SubSeq(items, 1, IF Len(items) < 10 THEN Len(items) ELSE 10)

\* summarize_transactions, llm_app.py:16-25: txn.get exists on objects only
Summarizable(items) ==
    \A i \in 1..Len(First10(items)) : First10(items)[i].type = "dict"

\* what the handler of /upload_json never writes
predicts ==
    <<dataset, model, pc, nreq, txn, cust_id, latest, input_data,
      rule_based_result, prediction_code, ml_prediction, top_features,
      predict_calls, shap, smtp, log, alerts, response, completed, tie, seen,
      fraud_label>>

\* line 63: the file is read
Upload(bytes) ==
    /\ upload_pc = "idle"
    /\ content' = bytes
    /\ upload_pc' = "read"
    /\ UNCHANGED <<transactions, llm_calls, upload_response>>
    /\ UNCHANGED predicts

\* lines 64-67: decode, parse, and the test that the value is a list
Load ==
    /\ upload_pc = "read"
    /\ IF ~Decode(content).ok
       THEN /\ UploadRaise(Exception("UnicodeDecodeError"))
            /\ UNCHANGED transactions
       ELSE IF ~JsonLoads(Decode(content).text).ok
       THEN /\ UploadRaise(Exception("JSONDecodeError"))
            /\ UNCHANGED transactions
       ELSE /\ transactions' = JsonLoads(Decode(content).text).value
            /\ IF transactions'.type # "list"
               THEN UploadRaise(HTTPException(400,
                                   <<"JSON must be a list of transactions">>))
               ELSE /\ upload_pc' = "analyze"
                    /\ UNCHANGED upload_response
    /\ UNCHANGED <<content, llm_calls>>
    /\ UNCHANGED predicts

\* line 70, analyze_overall_with_llm (28-57): the summary, then the LLM call,
\* whose failure is caught (50-51)
Analyze(llm_ok) ==
    /\ upload_pc = "analyze"
    /\ IF ~Summarizable(transactions.items)
       THEN /\ UploadRaise(Exception("AttributeError"))
            /\ UNCHANGED llm_calls
       ELSE /\ llm_calls' = llm_calls + 1
            /\ upload_response' =
                  [status |-> 200,
                   overall_fraud_recommendation |->
                       IF llm_ok THEN "analysis" ELSE "LLM unavailable",
                   analyzed_transactions |-> Len(First10(transactions.items))]
            /\ upload_pc' = "done"
    /\ UNCHANGED <<content, transactions>>
    /\ UNCHANGED predicts

InitUpload ==
    /\ dataset = <<>>
    /\ model \in {m \in Classifiers : ~m.fitted}
    /\ pc = "idle"
    /\ nreq = 0
    /\ txn = Unset
    /\ cust_id = Unset
    /\ latest = Unset
    /\ input_data = Unset
    /\ rule_based_result = Unset
    /\ prediction_code = Unset
    /\ ml_prediction = Unset
    /\ top_features = Unset
    /\ predict_calls = 0
    /\ shap = "idle"
    /\ smtp = "idle"
    /\ log = <<>>
    /\ alerts = <<>>
    /\ response = Pending
    /\ completed = 0
    /\ tie = "first"
    /\ seen = {}
    /\ fraud_label = <<>>
    /\ UploadIdle

NextUpload ==
    \/ \E bytes \in Contents : Upload(bytes)
    \/ Load
    \/ \E llm_ok \in BOOLEAN : Analyze(llm_ok)

SpecUpload == InitUpload /\ [][NextUpload]_vars

-----------------------------------------------------------------------------
(* Vocabulary of the properties *)

Began == nreq > 0

\* no row of the dataset carries the trimmed customer id of the request
NoHistory ==
    \A i \in 1..Len(dataset) : dataset[i].customer_id # Strip(txn.Customer_ID)

\* the value a categorical field has before encoding
RawValue(f) ==
    CASE f = "transaction_type" -> txn.Transaction_Type
      [] f = "device_type"      -> txn.Device_Type
      [] f = "location"         -> latest.location
      [] f = "payment_method"   -> latest.payment_method

UnknownFields ==
    {f \in {"transaction_type", "location", "device_type", "payment_method"} :
        \A i \in 1..Len(encoders[f]) : encoders[f][i] # RawValue(f)}

FraudSignal(rule, ml) == rule # "None" \/ ml = "APP Fraud" \/ ml = "ATO + RTP Drain"

-----------------------------------------------------------------------------
(* Properties *)

\* C1: a request whose trimmed customer id matches no row of the dataset ends
\* with the 404 "Customer ID not found" error; it calls no classifier, appends
\* no log line and dispatches no alert.
UnknownCustomerIsNotFound ==
    (Began /\ NoHistory) =>
        /\ pc = "done"
        /\ response = [status |-> 404, detail |-> <<"Customer ID not found">>]
        /\ predict_calls = 0
        /\ LinesOf(nreq) = {}
        /\ AlertsOf(nreq) = {}

UnknownCustomerSeen ==
    /\ Began /\ NoHistory
    /\ nreq = 2
    /\ Len(log) = 1
    /\ Len(alerts) = 1
    /\ txn.Customer_ID = <<"a">>

\* C2: with an existing customer and exactly one categorical field whose value
\* is in no encoder table, the request ends with the 400 error naming that
\* field (and its value), whatever the other fields are; the classifier is not
\* called, no log line is appended and no alert is dispatched.
OneUnknownFieldIsNamed ==
    (Began /\ ~NoHistory /\ Cardinality(UnknownFields) = 1) =>
        LET f == CHOOSE g \in UnknownFields : TRUE
        IN  /\ pc = "done"
            /\ response = [status |-> 400,
                           detail |-> <<"Unknown value for", f, RawValue(f)>>]
            /\ predict_calls = 0
            /\ LinesOf(nreq) = {}
            /\ AlertsOf(nreq) = {}

OneUnknownFieldSeen ==
    /\ Began /\ ~NoHistory
    /\ UnknownFields = {"transaction_type"}
    /\ rule_based_result = "APP Fraud"
    /\ response.status = 400

\* C3: the rule verdict is "APP Fraud" exactly when new_beneficiary_added = 1
\* and transaction_amount > 5000; otherwise "ATO + RTP Drain" exactly when
\* failed_login_attempts > 2 and unusual_location = 1; otherwise "None".
RuleVerdictIsFirstMatch ==
    rule_based_result # Unset =>
        LET app == input_data.new_beneficiary_added = 1
                   /\ input_data.transaction_amount > 5000
            ato == input_data.failed_login_attempts > 2
                   /\ input_data.unusual_location = 1
        IN  /\ rule_based_result \in {"APP Fraud", "ATO + RTP Drain", "None"}
            /\ rule_based_result = "APP Fraud" <=> app
            /\ rule_based_result = "ATO + RTP Drain" <=> (~app /\ ato)
            /\ rule_based_result = "None" <=> (~app /\ ~ato)

BothRulesMatchSeen ==
    /\ pc = "ruled"
    /\ input_data.new_beneficiary_added = 1
    /\ input_data.transaction_amount = 5001
    /\ input_data.failed_login_attempts = 3
    /\ input_data.unusual_location = 1
    /\ rule_based_result = "APP Fraud"

\* C4: a request that returned a complete result dispatched exactly one alert
\* if its rule verdict is not "None" or its model verdict is one of the two
\* fraud labels, and none otherwise; no request dispatches two alerts.
AlertIffFraudSignal ==
    /\ \A n \in 1..nreq : Cardinality(AlertsOf(n)) <= 1
    /\ (pc = "done" /\ response.status = 200) =>
          Cardinality(AlertsOf(nreq)) =
              IF FraudSignal(response.rule_based_result, response.ml_prediction[1])
              THEN 1 ELSE 0
    /\ \A n \in 1..(nreq - 1) : \A i \in LinesOf(n) :
          Cardinality(AlertsOf(n)) =
              IF FraudSignal(log[i].rule, log[i].ml) THEN 1 ELSE 0

ModelOnlyAlertSeen ==
    /\ pc = "done"
    /\ response.status = 200
    /\ response.rule_based_result = "None"
    /\ response.ml_prediction[1] = "ATO + RTP Drain"
    /\ Cardinality(AlertsOf(nreq)) = 1

\* C5: the fraud type of every dispatched alert is the rule verdict of its
\* request when that is not "None", and the model verdict otherwise; it is
\* never "None" or "Unknown".
AlertCarriesRuleVerdictFirst ==
    \A a \in 1..Len(alerts) :
        /\ alerts[a].fraud_type \in {"APP Fraud", "ATO + RTP Drain"}
        /\ \E i \in LinesOf(alerts[a].time) :
              /\ alerts[a].customer_id = log[i].customer
              /\ alerts[a].fraud_type =
                    IF log[i].rule # "None" THEN log[i].rule ELSE log[i].ml

DisagreeingAlertSeen ==
    \E a \in 1..Len(alerts) : \E i \in LinesOf(alerts[a].time) :
        /\ log[i].rule = "ATO + RTP Drain"
        /\ log[i].ml = "APP Fraud"
        /\ alerts[a].fraud_type = "ATO + RTP Drain"

\* C6: between requests the audit log has as many lines as requests returned
\* a complete result: a request that returns one has appended exactly one
\* line, with its customer id and both verdicts, and a request that ends in
\* an error has appended none.
AuditLogMatchesResults ==
    /\ pc \in {"idle", "done"} => Len(log) = completed
    /\ \A n \in 1..nreq : Cardinality(LinesOf(n)) <= 1
    /\ pc = "done" =>
          IF response.status = 200
          THEN \E i \in LinesOf(nreq) :
                  log[i] = [time |-> nreq,
                            customer |-> Strip(txn.Customer_ID),
                            rule |-> response.rule_based_result,
                            ml |-> response.ml_prediction[1]]
          ELSE LinesOf(nreq) = {}

FailureAfterSuccessSeen ==
    /\ pc = "done"
    /\ nreq = 2
    /\ completed = 1
    /\ Len(log) = 1
    /\ response.status = 500
    /\ shap = "ok"

\* C7: when the explainer raises after the classifier has predicted, the
\* request still returns a complete result, with both verdicts and an empty
\* top_features, after appending its log line and dispatching the alert the
\* verdicts call for.
ExplainerFailureDegrades ==
    shap = "raised" =>
        /\ response.status = 200
        /\ response.rule_based_result = rule_based_result
        /\ response.ml_prediction = <<ml_prediction, " (ML-Based)">>
        /\ response.top_features = <<>>
        /\ Cardinality(LinesOf(nreq)) = 1
        /\ Cardinality(AlertsOf(nreq)) =
              IF FraudSignal(rule_based_result, ml_prediction) THEN 1 ELSE 0

\* C8: a failed SMTP conversation does not change the outcome of the
\* request: the handler goes on to return, and what it returns is the same
\* complete result as after a conversation that went well, the verdicts it
\* had computed and logged before the alert; the log line stays.
AlertFailureIsHarmless ==
    /\ smtp = "failed" =>
          /\ pc \in {"return", "done"}
          /\ \E i \in LinesOf(nreq) :
                /\ log[i].rule = rule_based_result
                /\ log[i].ml = ml_prediction
    /\ (pc = "done" /\ smtp \in {"sent", "failed"}) =>
          response = [status |-> 200,
                      rule_based_result |-> rule_based_result,
                      ml_prediction |-> <<ml_prediction, " (ML-Based)">>,
                      top_features |-> top_features]

AlertFailureSeen ==
    /\ smtp = "failed"
    /\ pc = "done"
    /\ response.status = 200
    /\ response.rule_based_result = "APP Fraud"

\* C9: a finished request has exactly one of four outcomes: the complete
\* result (200), not-found (404, exactly when the customer has no row),
\* invalid-input (400, exactly when the customer has a row and a categorical
\* value is unknown) or internal failure (500); an error carries no verdict,
\* and a request whose classifier call failed ends with the 500.
FourOutcomes ==
    pc = "done" =>
        /\ response.status \in {200, 400, 404, 500}
        /\ response.status = 404 <=> NoHistory
        /\ response.status = 400 <=> (~NoHistory /\ UnknownFields # {})
        /\ response.status = 200 =>
              /\ DOMAIN response =
                    {"status", "rule_based_result", "ml_prediction", "top_features"}
              /\ response.ml_prediction[1] = MlPrediction(prediction_code)
        /\ response.status # 200 => DOMAIN response = {"status", "detail"}
        /\ (predict_calls > 0 /\ ~model.fitted) => response.status = 500

ClassifierFailureSeen ==
    /\ pc = "done"
    /\ predict_calls = 1
    /\ ~model.fitted
    /\ response = [status |-> 500, detail |-> <<"predict failed">>]

\* C10: the response of a request that triggers an alert does not wait for
\* the delivery of the alert: while the SMTP conversation is still open the
\* response has already been returned.
ResponseDoesNotWaitForAlert ==
    pc = "smtp" => response # Pending

\* C11: the verdicts and the alert decision of a request depend on its four
\* fields alone: whenever the same request has returned a result twice,
\* whatever was scored in between, both results carry the same rule verdict,
\* the same model verdict and the same alert decision.
SameRequestSameVerdicts ==
    \A a \in seen : \A b \in seen :
        a.txn = b.txn => (a.rule = b.rule /\ a.ml = b.ml /\ a.alert = b.alert)

\* three results, the first and the third for one request, the second for
\* another customer
RepeatedRequestSeen ==
    /\ completed = 3
    /\ Len(log) = 3
    /\ log[1].customer = <<"A">>
    /\ log[2].customer = <<"B">>
    /\ log[3].customer = <<"A">>
    /\ Cardinality(seen) = 2

\* the customer id without the blanks around it
Trimmed(s) ==
    LET solid == {i \in 1..Len(s) : s[i] # " "}
    IN  IF solid = {}
        THEN <<>>
        ELSE SubSeq(s, CHOOSE i \in solid : \A j \in solid : i <= j,
                       CHOOSE i \in solid : \A j \in solid : i >= j)

\* C12: the rows of the customer are those whose customer_id is, character
\* for character, the trimmed id of the request; without such a row the
\* request ends with the 404, and otherwise every contextual field of the
\* feature vector comes from one of these rows, one that no other row of the
\* customer is later than.
LatestRowIsUsed ==
    Began =>
        LET own == {i \in 1..Len(dataset) :
                        dataset[i].customer_id = Trimmed(txn.Customer_ID)}
        IN  IF own = {}
            THEN response.status = 404
            ELSE \E i \in own :
                    /\ \A j \in own : dataset[j].transaction_datetime
                                        <= dataset[i].transaction_datetime
                    /\ latest = dataset[i]
                    /\ input_data.failed_login_attempts = dataset[i].failed_login_attempts
                    /\ input_data.new_beneficiary_added = dataset[i].new_beneficiary_added
                    /\ input_data.unusual_location = dataset[i].unusual_location
                    /\ input_data.time_gap_between_transactions =
                          dataset[i].time_gap_between_transactions
                    /\ input_data.transaction_frequency_per_day =
                          dataset[i].transaction_frequency_per_day
                    /\ input_data.hour = dataset[i].hour
                    /\ input_data.day = dataset[i].day
                    /\ input_data.weekday = dataset[i].weekday
                    /\ input_data.location =
                          IF {"transaction_type", "location"} \cap UnknownFields = {}
                          THEN Transform(encoders.location, dataset[i].location)
                          ELSE dataset[i].location
                    /\ input_data.payment_method =
                          IF UnknownFields = {}
                          THEN Transform(encoders.payment_method, dataset[i].payment_method)
                          ELSE dataset[i].payment_method

NewerSecondRowSeen ==
    /\ pc = "done"
    /\ response.status = 200
    /\ txn.Customer_ID = <<" ", "A", " ">>
    /\ Len(dataset) = 2
    /\ dataset[1].customer_id = <<"A">>
    /\ dataset[1].transaction_datetime = 10
    /\ latest.transaction_datetime = 34

\* C13: when the classifier has been invoked on the feature vector, none of
\* its 14 fields is null.
ClassifierInputHasNoNull ==
    pc = "explain" =>
        \A i \in 1..Len(features) : ~IsNull(input_data[features[i]])

\* C14: after the explainer has answered, top_features has at most 3
\* entries, no magnitude is negative, the magnitudes do not rise along the
\* list, each one is the absolute contribution of the named feature to the
\* predicted class, and no feature left out contributes more, in absolute
\* value, than one that is listed.
TopFeaturesAreTheLargest ==
    shap = "ok" =>
        LET n         == Len(top_features)
            named     == {top_features[k][1] : k \in 1..n}
            weight(i) == LET v == ShapValue(model, input_data, i, prediction_code)
                         IN  IF v < 0 THEN 0 - v ELSE v
        IN  /\ n <= 3
            /\ \A k \in 1..n : top_features[k][2] >= 0
            /\ \A k \in 1..(n - 1) : top_features[k][2] >= top_features[k + 1][2]
            /\ \A k \in 1..n :
                  \E i \in 1..Len(features) :
                      /\ features[i] = top_features[k][1]
                      /\ top_features[k][2] = weight(i)
            /\ \A i \in 1..Len(features) :
                  features[i] \notin named =>
                      \A k \in 1..n : weight(i) <= top_features[k][2]

NegativeContributionRankedSeen ==
    /\ pc = "done"
    /\ response.status = 200
    /\ prediction_code = 2
    /\ Len(top_features) = 3
    /\ top_features[1][2] > top_features[3][2]
    /\ \E i \in 1..Len(features) :
          /\ features[i] = top_features[1][1]
          /\ ShapValue(model, input_data, i, prediction_code) < 0

\* C15: for the same values of new_beneficiary_added, transaction_amount,
\* failed_login_attempts and unusual_location, the label of the training
\* script, read through fraud_type_map, is the verdict of the rule engine.
TrainingLabelIsRuleVerdict ==
    (pc = "ruled" /\ fraud_label # <<>>) =>
        fraud_type_map[fraud_label[1]] = rule_based_result

\* C16: an uploaded file whose content is valid JSON but not a list is
\* answered with status 400 and the detail "JSON must be a list of
\* transactions", and the LLM is not called for it.
NonListUploadIsClientError ==
    (/\ upload_pc = "done"
     /\ Len(content) = 1
     /\ content[1] \in {"7", "{}"})
    => /\ upload_response.status = 400
       /\ upload_response.detail = <<"JSON must be a list of transactions">>
       /\ llm_calls = 0

====
